---- MODULE Spec2Model ----
(***************************************************************************)
(* A model of src/index.ts: the scraper's pipeline (scrape), its text      *)
(* cleaner (cleanText) and its time parser (convertToDate).                *)
(*                                                                         *)
(* A JavaScript string is modelled as a sequence of one-character strings, *)
(* so that the regular expressions of the source are computed character by *)
(* character.  URLs, which the code only concatenates and compares, are    *)
(* TLA+ strings.                                                           *)
(***************************************************************************)
EXTENDS Integers, Sequences, FiniteSets, TLC

VARIABLES
    \* scrape(): the position in the function and its locals
    pc,          \* "start", "awaitIndex", "loop", "awaitDetail", "returned", "rejected"
    index,       \* const $ of line 31: "none" until the index page is loaded, then "loaded"
    mosqueURLs,  \* const mosqueURLs: string[]
    cursor,      \* position of the for..of loop in mosqueURLs (1-based, next to visit)
    mosque,      \* let mosque: Mosque of the current iteration (NoMosque outside)
    mosques,     \* const mosques: Mosque[]
    inflight,    \* the axios.get requests awaited and not yet settled
    requests,    \* every axios.get issued so far, in order
    errorLog,    \* the console.error calls so far, in order
    \* cleanText(text)
    ctText,      \* the argument
    ctResult,    \* the returned string, NoResult before the call
    \* convertToDate(timeString)
    cdTimeString, \* the argument
    cdNow,        \* what new Date() gives during the call
    cdResult,     \* the outcome of the call, NoResult before it
    \* the link discovery of scrape, lines 33-43
    ldDocument,  \* the parsed index document
    ldResult,    \* mosqueURLs after the two nested each loops, NoResult before
    \* one iteration of scrape's loop, lines 47-101
    itUrl,       \* the URL of the iteration
    itResponse,  \* what axios.get(url) and cheerio.load give
    itNow,       \* what new Date() gives during the iteration
    itResult     \* the outcome of the iteration, NoResult before it

scrapeVars == <<pc, index, mosqueURLs, cursor, mosque, mosques, inflight, requests, errorLog>>
ctVars == <<ctText, ctResult>>
cdVars == <<cdTimeString, cdNow, cdResult>>
ldVars == <<ldDocument, ldResult>>
itVars == <<itUrl, itResponse, itNow, itResult>>
vars == <<scrapeVars, ctVars, cdVars, ldVars, itVars>>

\* a call that has not been made yet, and a call that has completed with v
NoResult == [done |-> FALSE]
Completed(v) == [done |-> TRUE, value |-> v]

\* how a function completes: it returns a value or throws an Error
Return(v) == [threw |-> FALSE, value |-> v]
Throw(message) == [threw |-> TRUE, error |-> message]

\* no current iteration
NoMosque == [none |-> TRUE]

\* const DOMAIN, const SUB
DOMAIN_ == "https://www.salatomatic.com"
SUB == "/sub/United-States/Alabama/Birmingham/AvcK8i3L3C"

(***************************************************************************)
(* Bounds of the model.                                                    *)
(***************************************************************************)
\* longest argument of cleanText that is enumerated
MaxTextLen == 6
\* most .microLink elements of an enumerated detail page (the code reads six)
MaxMicroLinks == 7
\* most elements of an index document that link discovery is run on
MaxNodes == 4
\* most elements of the index document that scrape is run on
MaxIndexNodes == 3

(***************************************************************************)
(* Characters and strings.                                                 *)
(***************************************************************************)
\* the characters of the model that the regular expression class \s matches
WhiteSpace == {" ", "\t", "\n", "\r"}

IsSpace(c) == c \in WhiteSpace

\* String.prototype.replace(/c/g, ""): every occurrence of the character deleted
DeleteChar(text, c) == SelectSeq(text, LAMBDA x : x # c)

\* the sequences over S of length at most n
SeqsUpTo(S, n) == UNION {[1..k -> S] : k \in 0..n}

\* the length of the longest run of whitespace starting at position i
RECURSIVE SpaceRun(_, _)
SpaceRun(text, i) ==
    IF i > Len(text) \/ ~IsSpace(text[i]) THEN 0 ELSE 1 + SpaceRun(text, i + 1)

\* String.prototype.replace(/\s\s+/g, ""): scanning from the left, a match is
\* a whitespace character followed by one or more (greedy) whitespace
\* characters; a match is deleted and the scan goes on after it.
RECURSIVE DeleteSpaceRunsFrom(_, _)
DeleteSpaceRunsFrom(text, i) ==
    IF i > Len(text) THEN <<>>
    ELSE LET run == SpaceRun(text, i)
         IN  IF run >= 2 THEN DeleteSpaceRunsFrom(text, i + run)
             ELSE <<text[i]>> \o DeleteSpaceRunsFrom(text, i + 1)

DeleteSpaceRuns(text) == DeleteSpaceRunsFrom(text, 1)

\* String.prototype.trim()
RECURSIVE TrimStart(_)
TrimStart(text) ==
    IF text # <<>> /\ IsSpace(Head(text)) THEN TrimStart(Tail(text)) ELSE text

RECURSIVE TrimEnd(_)
TrimEnd(text) ==
    IF text # <<>> /\ IsSpace(text[Len(text)])
    THEN TrimEnd(SubSeq(text, 1, Len(text) - 1))
    ELSE text

Trim(text) == TrimEnd(TrimStart(text))

\* a faulty variant of cleanText: a whitespace run is replaced by one space, as the
\* source's comment says
RECURSIVE CollapseSpaceRunsFrom(_, _)
CollapseSpaceRunsFrom(text, i) ==
    IF i > Len(text) THEN <<>>
    ELSE LET run == SpaceRun(text, i)
         IN  IF run >= 2 THEN <<" ">> \o CollapseSpaceRunsFrom(text, i + run)
             ELSE <<text[i]>> \o CollapseSpaceRunsFrom(text, i + 1)

cleanText_collapsing(text) ==
    Trim(CollapseSpaceRunsFrom(DeleteChar(DeleteChar(text, "\n"), "\t"), 1))

\* function cleanText(text: string): string
cleanText(text) ==
    Trim(DeleteSpaceRuns(DeleteChar(DeleteChar(text, "\n"), "\t")))

(***************************************************************************)
(* The specification of cleanText: any text of the alphabet, then the call.*)
(***************************************************************************)
TextAlphabet == {"a", "b", " ", "\n", "\t", "\r"}

InitIdleScrape ==
    /\ pc = "idle"
    /\ index = "none"
    /\ mosqueURLs = <<>>
    /\ cursor = 1
    /\ mosque = NoMosque
    /\ mosques = <<>>
    /\ inflight = {}
    /\ requests = <<>>
    /\ errorLog = <<>>

InitIdleCleanText == ctText = <<>> /\ ctResult = NoResult

InitIdleConvert == cdTimeString = <<>> /\ cdNow = 0 /\ cdResult = NoResult

InitIdleLinks == ldDocument = <<>> /\ ldResult = NoResult

InitIdleIteration ==
    itUrl = "" /\ itResponse = NoResult /\ itNow = 0 /\ itResult = NoResult

InitCleanText ==
    /\ ctText \in SeqsUpTo(TextAlphabet, MaxTextLen)
    /\ ctResult = NoResult
    /\ InitIdleScrape /\ InitIdleConvert /\ InitIdleLinks /\ InitIdleIteration

CallCleanText ==
    /\ ctResult = NoResult
    /\ ctResult' = Completed(cleanText(ctText))
    /\ UNCHANGED <<ctText, scrapeVars, cdVars, ldVars, itVars>>

NextCleanText == CallCleanText

SpecCleanText == InitCleanText /\ [][NextCleanText]_vars

(***************************************************************************)
(* convertToDate.                                                          *)
(***************************************************************************)
Digits == {"0", "1", "2", "3", "4", "5", "6", "7", "8", "9"}

Letters ==
    {"A", "B", "C", "D", "E", "F", "G", "H", "I", "J", "K", "L", "M",
     "N", "O", "P", "Q", "R", "S", "T", "U", "V", "W", "X", "Y", "Z",
     "a", "b", "c", "d", "e", "f", "g", "h", "i", "j", "k", "l", "m",
     "n", "o", "p", "q", "r", "s", "t", "u", "v", "w", "x", "y", "z"}

\* the regular expression classes \d and \w
IsDigit(c) == c \in Digits
IsWord(c) == c \in Digits \cup Letters \cup {"_"}

DigitValue(c) ==
    CASE c = "0" -> 0 [] c = "1" -> 1 [] c = "2" -> 2 [] c = "3" -> 3
      [] c = "4" -> 4 [] c = "5" -> 5 [] c = "6" -> 6 [] c = "7" -> 7
      [] c = "8" -> 8 [] c = "9" -> 9

\* Number(text) of a text of two digits
Number2(text) == 10 * DigitValue(text[1]) + DigitValue(text[2])

\* the length of the longest run of \w characters starting at position i
RECURSIVE WordRun(_, _)
WordRun(text, i) ==
    IF i > Len(text) \/ ~IsWord(text[i]) THEN 0 ELSE 1 + WordRun(text, i + 1)

\* whether timeRegex = /(\d{2}:\d{2})\s\((\w+)\)/ matches starting at position
\* p: \w+ is greedy and what follows it must be ")", so it takes the whole run
TimeRegexMatchesAt(text, p) ==
    /\ p + 8 <= Len(text)
    /\ IsDigit(text[p]) /\ IsDigit(text[p + 1])
    /\ text[p + 2] = ":"
    /\ IsDigit(text[p + 3]) /\ IsDigit(text[p + 4])
    /\ IsSpace(text[p + 5])
    /\ text[p + 6] = "("
    /\ WordRun(text, p + 7) >= 1
    /\ p + 7 + WordRun(text, p + 7) <= Len(text)
    /\ text[p + 7 + WordRun(text, p + 7)] = ")"

\* timeString.match(timeRegex): the leftmost match, which need not start at
\* the first character or end at the last; its two groups
TimeRegexMatch(text) ==
    LET starts == {p \in 1..Len(text) : TimeRegexMatchesAt(text, p)}
    IN  IF starts = {} THEN [matched |-> FALSE]
        ELSE LET p == CHOOSE q \in starts : \A r \in starts : q <= r
             IN  [matched |-> TRUE,
                  time |-> SubSeq(text, p, p + 4),
                  timeZoneAbbr |-> SubSeq(text, p + 7, p + 6 + WordRun(text, p + 7))]

\* const timeZoneOffsets: the object literal's own properties
timeZoneOffsets ==
    (<<"U", "T", "C">> :> 0) @@ (<<"G", "M", "T">> :> 0) @@
    (<<"E", "S", "T">> :> -5) @@ (<<"E", "D", "T">> :> -4) @@
    (<<"C", "S", "T">> :> -6) @@ (<<"C", "D", "T">> :> -5) @@
    (<<"M", "S", "T">> :> -7) @@ (<<"M", "D", "T">> :> -6) @@
    (<<"P", "S", "T">> :> -8) @@ (<<"P", "D", "T">> :> -7)

\* property names that every object literal inherits from Object.prototype
\* and that \w+ can match (those the model's inputs use)
ObjectPrototypeKeys ==
    {<<"c", "o", "n", "s", "t", "r", "u", "c", "t", "o", "r">>,
     <<"t", "o", "S", "t", "r", "i", "n", "g">>,
     <<"v", "a", "l", "u", "e", "O", "f">>}

\* timeZoneOffsets[timeZoneAbbr]: an own property, an inherited one (a
\* function), or undefined
PropertyOfTimeZoneOffsets(key) ==
    IF key \in DOMAIN timeZoneOffsets
    THEN [type |-> "number", number |-> timeZoneOffsets[key]]
    ELSE IF key \in ObjectPrototypeKeys
         THEN [type |-> "function"]
         ELSE [type |-> "undefined"]

\* ECMAScript time values: milliseconds since the epoch, NaN for Invalid Date
msPerSecond == 1000
msPerMinute == 60 * msPerSecond
msPerHour == 60 * msPerMinute
msPerDay == 24 * msPerHour

ValidDate(t) == [valid |-> TRUE, time |-> t]
InvalidDate == [valid |-> FALSE]

Day(t) == t \div msPerDay
getUTCHours(date) == (date.time \div msPerHour) % 24
getUTCMinutes(date) == (date.time \div msPerMinute) % 60
getUTCSeconds(date) == (date.time \div msPerSecond) % 60
getUTCMilliseconds(date) == date.time % msPerSecond

\* a faulty variant of setUTCHours: the hour is reduced modulo 24, the day is kept
setUTCHours_wrapping(date, hour, min, sec, ms) ==
    IF ~date.valid \/ hour.type # "number" THEN InvalidDate
    ELSE ValidDate(Day(date.time) * msPerDay + (hour.number % 24) * msPerHour
                   + min * msPerMinute + sec * msPerSecond + ms)

\* Date.prototype.setUTCHours(hour, min, sec, ms): MakeDate(Day(t),
\* MakeTime(hour, min, sec, ms)); an hour of 24 or more carries into the
\* day; a NaN hour gives Invalid Date
setUTCHours(date, hour, min, sec, ms) ==
    IF ~date.valid \/ hour.type # "number" THEN InvalidDate
    ELSE ValidDate(Day(date.time) * msPerDay + hour.number * msPerHour
                   + min * msPerMinute + sec * msPerSecond + ms)

\* hours - offset: a number when offset is a number, NaN otherwise
Minus(hours, offset) ==
    IF offset.type = "number"
    THEN [type |-> "number", number |-> hours - offset.number]
    ELSE [type |-> "NaN"]

\* function convertToDate(timeString: string): Date, with new Date() = now
convertToDate(timeString, now) ==
    LET match == TimeRegexMatch(timeString)
    IN  IF ~match.matched THEN Throw("Invalid time format")
        ELSE LET hours == Number2(SubSeq(match.time, 1, 2))
                 minutes == Number2(SubSeq(match.time, 4, 5))
                 offset == PropertyOfTimeZoneOffsets(match.timeZoneAbbr)
             IN  IF offset.type = "undefined"
                 THEN Throw("Unknown time zone abbreviation")
                 ELSE Return(setUTCHours(ValidDate(now), Minus(hours, offset),
                                         minutes, 0, 0))

(***************************************************************************)
(* The specification of convertToDate: a time string and a clock reading,  *)
(* then the call.                                                          *)
(***************************************************************************)
DigitChar(d) == CHOOSE c \in Digits : DigitValue(c) = d
TwoDigits(n) == <<DigitChar(n \div 10), DigitChar(n % 10)>>

Noon == 3 * msPerDay + 13 * msPerHour + 45 * msPerMinute + 12 * msPerSecond + 345

\* readings of the clock: mid-day, the last millisecond of a day, midnight
Nows ==
    {Noon,
     4 * msPerDay + 23 * msPerHour + 59 * msPerMinute + 59 * msPerSecond + 999,
     5 * msPerDay}

SampleHours == {TwoDigits(h) : h \in 0..23} \cup {<<"9", "9">>}
SampleMinutes == {TwoDigits(0), TwoDigits(30), TwoDigits(59)}
SampleSeparators == {<<" ">>, <<"\t">>, <<>>, <<" ", " ">>}
SampleAbbreviations ==
    DOMAIN timeZoneOffsets \cup ObjectPrototypeKeys
    \cup {<<"X", "Y", "Z">>, <<"e", "s", "t">>, <<"E", "S", "T", "5">>, <<>>}
SamplePrefixes == {<<>>, <<"1">>}
SampleSuffixes == {<<>>, <<"x">>}

\* texts with no colon, no parentheses or no time at all
MalformedTimeStrings ==
    {<<>>,
     <<"5", ":", "3", "0", "p", "m">>,
     <<"0", "5", ":", "3", "0">>,
     <<"0", "5", "3", "0", " ", "(", "E", "S", "T", ")">>,
     <<"0", "5", ":", "3", "0", " ", "[", "E", "S", "T", "]">>,
     <<"0", "5", ":", "3", "0", " ", "(", "E", " ", "T", ")">>,
     <<"5", ":", "3", "0", " ", "(", "E", "S", "T", ")">>}

TimeStrings ==
    {prefix \o hh \o <<":">> \o mm \o sep \o <<"(">> \o abbr \o <<")">> \o suffix :
        prefix \in SamplePrefixes, hh \in SampleHours, mm \in SampleMinutes,
        sep \in SampleSeparators, abbr \in SampleAbbreviations,
        suffix \in SampleSuffixes}
    \cup MalformedTimeStrings

InitConvert ==
    /\ cdTimeString \in TimeStrings
    /\ cdNow \in Nows
    /\ cdResult = NoResult
    /\ InitIdleScrape /\ InitIdleCleanText /\ InitIdleLinks /\ InitIdleIteration

CallConvertToDate ==
    /\ cdResult = NoResult
    /\ cdResult' = Completed(convertToDate(cdTimeString, cdNow))
    /\ UNCHANGED <<cdTimeString, cdNow, scrapeVars, ctVars, ldVars, itVars>>

NextConvert == CallConvertToDate

SpecConvert == InitConvert /\ [][NextConvert]_vars

(***************************************************************************)
(* One iteration of scrape's loop over mosqueURLs.                         *)
(*                                                                         *)
(* A detail page is what the cheerio queries of the iteration read from    *)
(* it: the texts of its .bodyLink elements, the texts of the div elements  *)
(* inside its tbody elements number 212 to 214 (counted from 0; none when  *)
(* the page has no such tbody) and the texts of its .microLink elements,   *)
(* each in document order.                                                 *)
(*                                                                         *)
(* An optional property of a Mosque that was never assigned is a field the *)
(* record does not have.                                                   *)
(***************************************************************************)
Has(object, property) == property \in DOMAIN object

\* the ordinals of $tbodies.eq(212) and $tbodies.eq(214)
QuickFactsTbody == 212
GovernanceTbody == 214

\* the properties of prayerTimings in the order the code assigns them, the
\* n-th from $microLinkDivs.eq(n - 1)
PrayerSlots == <<"fajr", "snrs", "dhur", "asr", "magh", "isha">>

\* $(selection).eq(n).text(): the text of the n-th element counted from 0,
\* the empty string when the selection has no such element
EqText(texts, n) == IF n + 1 <= Len(texts) THEN texts[n + 1] ELSE <<>>

\* lines 47-52
Stub(url) ==
    [url |-> url, quickFacts |-> <<>>, governance |-> <<>>,
     prayerTimings |-> <<>>]

\* each((index, element) => list.push(cleanText($(element).text())))
CleanEach(texts) == [i \in 1..Len(texts) |-> cleanText(texts[i])]

\* a faulty variant of lines 79-96: a conversion that throws leaves its slot absent
\* and the later slots are still converted
RECURSIVE AssignPrayerTimings_isolated(_, _, _, _)
AssignPrayerTimings_isolated(timings, microLinks, n, now) ==
    IF n > Len(PrayerSlots) THEN [threw |-> FALSE, timings |-> timings]
    ELSE LET date == convertToDate(cleanText(EqText(microLinks, n - 1)), now)
         IN  AssignPrayerTimings_isolated(
                 IF date.threw THEN timings
                 ELSE (PrayerSlots[n] :> date.value) @@ timings,
                 microLinks, n + 1, now)

\* lines 79-96 from the n-th assignment on: each assignment happens only if
\* convertToDate returns; the first throw ends the sequence and leaves the
\* assignments made before it
RECURSIVE AssignPrayerTimings(_, _, _, _)
AssignPrayerTimings(timings, microLinks, n, now) ==
    IF n > Len(PrayerSlots) THEN [threw |-> FALSE, timings |-> timings]
    ELSE LET date == convertToDate(cleanText(EqText(microLinks, n - 1)), now)
         IN  IF date.threw
             THEN [threw |-> TRUE, error |-> date.error, timings |-> timings]
             ELSE AssignPrayerTimings((PrayerSlots[n] :> date.value) @@ timings,
                                      microLinks, n + 1, now)

\* a faulty variant of lines 58-59: a field is assigned only when its element exists
ExtractFields_presentOnly(m, page, timed) ==
    (IF Len(page.bodyLink) >= 1
     THEN "address" :> cleanText(EqText(page.bodyLink, 0)) ELSE <<>>) @@
    (IF Len(page.bodyLink) >= 2
     THEN "description" :> cleanText(EqText(page.bodyLink, 1)) ELSE <<>>) @@
    [url |-> m.url,
     quickFacts |-> m.quickFacts \o CleanEach(page.tbodyDivs[QuickFactsTbody]),
     governance |-> m.governance \o CleanEach(page.tbodyDivs[GovernanceTbody]),
     prayerTimings |-> timed.timings]

\* the object after lines 57-96, which mutate it in place: the assignments
\* of lines 58-75 cannot throw and are made before the first conversion;
\* timed is the outcome of lines 79-96
ExtractFields(m, page, timed) ==
    [address |-> cleanText(EqText(page.bodyLink, 0)),
     description |-> cleanText(EqText(page.bodyLink, 1)),
     url |-> m.url,
     quickFacts |-> m.quickFacts \o CleanEach(page.tbodyDivs[QuickFactsTbody]),
     governance |-> m.governance \o CleanEach(page.tbodyDivs[GovernanceTbody]),
     prayerTimings |-> timed.timings]

\* console.error(`Error fetching URL ${url}:`, error)
DetailError(url, error) ==
    [message |-> "Error fetching URL", url |-> url, error |-> error]

\* a faulty variant of the try statement of lines 54-99: no catch clause, the error
\* leaves the loop
AfterFetch_uncaught(m, response, now) ==
    IF response.status # "loaded"
    THEN [mosque |-> m, logged |-> <<>>, threw |-> TRUE]
    ELSE LET timed == AssignPrayerTimings(<<>>, response.page.microLink, 1, now)
         IN  [mosque |-> ExtractFields(m, response.page, timed),
              logged |-> <<>>, threw |-> timed.threw]

\* a faulty variant of the catch clause of lines 97-99: the object is reset to the
\* stub when the iteration fails
AfterFetch_resetting(m, response, now) ==
    IF response.status # "loaded"
    THEN [mosque |-> m, logged |-> <<DetailError(m.url, response.status)>>,
          threw |-> FALSE]
    ELSE LET timed == AssignPrayerTimings(<<>>, response.page.microLink, 1, now)
         IN  IF timed.threw
             THEN [mosque |-> Stub(m.url),
                   logged |-> <<DetailError(m.url, timed.error)>>,
                   threw |-> FALSE]
             ELSE [mosque |-> ExtractFields(m, response.page, timed),
                   logged |-> <<>>, threw |-> FALSE]

\* lines 54-101 from the settling of axios.get(url) on: the try block, its
\* catch clause, and the object that mosques.push(mosque) appends; threw is
\* whether an error leaves the iteration
AfterFetch(m, response, now) ==
    IF response.status # "loaded"
    THEN [mosque |-> m, logged |-> <<DetailError(m.url, response.status)>>,
          threw |-> FALSE]
    ELSE LET timed == AssignPrayerTimings(<<>>, response.page.microLink, 1, now)
         IN  [mosque |-> ExtractFields(m, response.page, timed),
              logged |-> IF timed.threw
                         THEN <<DetailError(m.url, timed.error)>> ELSE <<>>,
              threw |-> FALSE]

(***************************************************************************)
(* The specification of one iteration: a URL, a response and a clock       *)
(* reading, then the iteration.  The clock is read once per iteration: the *)
(* six conversions of an iteration fall in the same millisecond.           *)
(***************************************************************************)
TextA == <<"\n", "A", " ", "s", "t", "\t">>
TextB == <<"B", " ", " ", "b">>

TimeEST == <<"\n", "0", "5", ":", "3", "0", " ", "(", "E", "S", "T", ")", "\t">>
TimeCST == <<"2", "0", ":", "1", "5", " ", "(", "C", "S", "T", ")">>
TimeBad == <<"5", ":", "3", "0", "p", "m">>

\* the .bodyLink texts of a page with no, one, two and three such elements
BodyLinkSamples ==
    {<<>>, <<TextA>>, <<<<>>>>, <<TextA, TextB>>, <<TextB, TextA, TextA>>}

\* the div texts of tbody 212 to 214: a page with fewer than 213 tbody
\* elements, and a page whose tables hold tags
TbodySamples ==
    {[i \in QuickFactsTbody..GovernanceTbody |-> <<>>],
     [i \in QuickFactsTbody..GovernanceTbody |->
        IF i = QuickFactsTbody THEN <<TextA>>
        ELSE IF i = GovernanceTbody THEN <<TextB, TextA>> ELSE <<TextB, TextB>>]}

MicroLinkTexts == {TimeEST, TimeCST, TimeBad}

DetailPages ==
    [bodyLink : BodyLinkSamples,
     tbodyDivs : TbodySamples,
     microLink : SeqsUpTo(MicroLinkTexts, MaxMicroLinks)]

\* how axios.get(url) and cheerio.load(data) end: the request fails, the
\* load throws, or there is a document
ResponsesOf(pages) ==
    {[status |-> "request failed"], [status |-> "load failed"]}
    \cup {[status |-> "loaded", page |-> page] : page \in pages}

InitIteration ==
    /\ itUrl \in {DOMAIN_ \o "/d/a"}
    /\ itResponse \in ResponsesOf(DetailPages)
    /\ itNow \in {Noon}
    /\ itResult = NoResult
    /\ InitIdleScrape /\ InitIdleCleanText /\ InitIdleConvert /\ InitIdleLinks

RunIteration ==
    /\ itResult = NoResult
    /\ itResult' = Completed(AfterFetch(Stub(itUrl), itResponse, itNow))
    /\ UNCHANGED <<itUrl, itResponse, itNow, scrapeVars, ctVars, cdVars, ldVars>>

NextIteration == RunIteration

SpecIteration == InitIteration /\ [][NextIteration]_vars

(***************************************************************************)
(* Link discovery, lines 33-43.                                            *)
(*                                                                         *)
(* An index document is the sequence of its elements in document order.    *)
(* Each element names its parent (0: the root, otherwise an earlier        *)
(* element), is a .titleBS element, an anchor or another element, and, if  *)
(* an anchor, has an href attribute or none.  Anchors have no children.    *)
(***************************************************************************)
NoHref == [defined |-> FALSE]
Href(text) == [defined |-> TRUE, text |-> text]

\* `${href}`: the attribute's text, "undefined" when there is no attribute
TemplateText(href) == IF href.defined THEN href.text ELSE "undefined"

\* the elements on the path from element i to the root, i included
RECURSIVE AncestorsOrSelf(_, _)
AncestorsOrSelf(document, i) ==
    IF i = 0 THEN {} ELSE {i} \cup AncestorsOrSelf(document, document[i].parent)

\* $(div).find("a"): the anchors below element i, in document order
AnchorsBelow(document, i) ==
    SelectSeq([j \in 1..Len(document) |-> j],
              LAMBDA j : /\ document[j].kind = "a"
                         /\ j # i
                         /\ i \in AncestorsOrSelf(document, j))

\* $(".titleBS"): the matching elements, in document order
TitleBlocks(document) ==
    SelectSeq([i \in 1..Len(document) |-> i],
              LAMBDA i : document[i].kind = "titleBS")

\* $links.each((i, link) => mosqueURLs.push(`${DOMAIN}${href}`))
LinksOf(document, anchors) ==
    [k \in 1..Len(anchors) |-> DOMAIN_ \o TemplateText(document[anchors[k]].href)]

\* a faulty variant of the outer each: an anchor already seen below an earlier
\* container is skipped
RECURSIVE DiscoverFrom_once(_, _, _)
DiscoverFrom_once(document, containers, n) ==
    IF n > Len(containers) THEN <<>>
    ELSE LinksOf(document,
                 SelectSeq(AnchorsBelow(document, containers[n]),
                           LAMBDA j : \A m \in 1..(n - 1) :
                               containers[m] \notin AncestorsOrSelf(document, j)))
         \o DiscoverFrom_once(document, containers, n + 1)

\* $divs.each(...) from the n-th container on: what the pushes append
RECURSIVE DiscoverFrom(_, _, _)
DiscoverFrom(document, containers, n) ==
    IF n > Len(containers) THEN <<>>
    ELSE LinksOf(document, AnchorsBelow(document, containers[n]))
         \o DiscoverFrom(document, containers, n + 1)

\* mosqueURLs after lines 33-43
DiscoverLinks(document) == DiscoverFrom(document, TitleBlocks(document), 1)

SampleHrefs == {Href("/d/a"), Href("/d/b"), NoHref}

\* whether element may follow the elements of document: its parent is the
\* root, the last element or one of its ancestors, and is no anchor
MayFollow(document, element) ==
    \/ element.parent = 0
    \/ /\ element.parent \in AncestorsOrSelf(document, Len(document))
       /\ document[element.parent].kind # "a"

\* the elements that can stand at position n of a document
ElementsAt(n) ==
    [parent : 0..(n - 1), kind : {"titleBS", "other"}, href : {NoHref}]
    \cup [parent : 0..(n - 1), kind : {"a"}, href : SampleHrefs]

\* the documents of exactly n elements
RECURSIVE DocumentsOfSize(_)
DocumentsOfSize(n) ==
    IF n = 0 THEN {<<>>}
    ELSE {Append(pair[1], pair[2]) :
            pair \in {p \in DocumentsOfSize(n - 1) \X ElementsAt(n) :
                        MayFollow(p[1], p[2])}}

InitLinks ==
    /\ \E n \in 0..MaxNodes : ldDocument \in DocumentsOfSize(n)
    /\ ldResult = NoResult
    /\ InitIdleScrape /\ InitIdleCleanText /\ InitIdleConvert /\ InitIdleIteration

RunDiscoverLinks ==
    /\ ldResult = NoResult
    /\ ldResult' = Completed(DiscoverLinks(ldDocument))
    /\ UNCHANGED <<ldDocument, scrapeVars, ctVars, cdVars, itVars>>

NextLinks == RunDiscoverLinks

SpecLinks == InitLinks /\ [][NextLinks]_vars

(***************************************************************************)
(* scrape().  The function runs on one thread and gives up control only at *)
(* its two await expressions, so a step of the model runs from one await   *)
(* (or the call) to the next await (or the return).                        *)
(***************************************************************************)
\* console.error("Error fetching the webpage:", error)
IndexError(error) == [message |-> "Error fetching the webpage", error |-> error]

\* the detail pages the pipeline's requests are answered with: a page with
\* all fields, a page with four .microLink elements and one .bodyLink, a page
\* whose second time does not parse, a page with none of the elements
FullPage ==
    [bodyLink |-> <<TextA, TextB>>,
     tbodyDivs |-> [i \in QuickFactsTbody..GovernanceTbody |->
                      IF i = QuickFactsTbody THEN <<TextA>>
                      ELSE IF i = GovernanceTbody THEN <<TextB, TextA>>
                      ELSE <<TextB, TextB>>],
     microLink |-> <<TimeEST, TimeCST, TimeEST, TimeCST, TimeEST, TimeCST>>]

ShortPage ==
    [bodyLink |-> <<TextA>>,
     tbodyDivs |-> [i \in QuickFactsTbody..GovernanceTbody |-> <<>>],
     microLink |-> <<TimeEST, TimeCST, TimeEST, TimeCST>>]

BadTimePage == [FullPage EXCEPT !.microLink[2] = TimeBad]

EmptyPage ==
    [bodyLink |-> <<>>,
     tbodyDivs |-> [i \in QuickFactsTbody..GovernanceTbody |-> <<>>],
     microLink |-> <<>>]

SamplePages == {FullPage, ShortPage, BadTimePage, EmptyPage}

Init ==
    /\ pc = "start"
    /\ index = "none"
    /\ mosqueURLs = <<>>
    /\ cursor = 1
    /\ mosque = NoMosque
    /\ mosques = <<>>
    /\ inflight = {}
    /\ requests = <<>>
    /\ errorLog = <<>>
    /\ InitIdleCleanText /\ InitIdleConvert /\ InitIdleLinks /\ InitIdleIteration

\* lines 24-30, up to the await: the request for the index page is issued
RequestIndex ==
    /\ pc = "start"
    /\ requests' = Append(requests, DOMAIN_ \o SUB)
    /\ inflight' = {Len(requests')}
    /\ pc' = "awaitIndex"
    /\ UNCHANGED <<index, mosqueURLs, cursor, mosque, mosques, errorLog>>
    /\ UNCHANGED <<ctVars, cdVars, ldVars, itVars>>

\* a faulty variant of the outer catch clause: the error is thrown again
IndexFails_rethrown ==
    /\ pc = "awaitIndex"
    /\ \E status \in {"request failed", "load failed"} :
          errorLog' = Append(errorLog, IndexError(status))
    /\ inflight' = {}
    /\ pc' = "rejected"
    /\ UNCHANGED <<index, mosqueURLs, cursor, mosque, mosques, requests>>
    /\ UNCHANGED <<ctVars, cdVars, ldVars, itVars>>

\* lines 30-31 throw (the request fails or cheerio.load throws): the catch
\* clause of lines 103-105 logs, line 107 returns mosques
IndexFails ==
    /\ pc = "awaitIndex"
    /\ \E status \in {"request failed", "load failed"} :
          errorLog' = Append(errorLog, IndexError(status))
    /\ inflight' = {}
    /\ pc' = "returned"
    /\ UNCHANGED <<index, mosqueURLs, cursor, mosque, mosques, requests>>
    /\ UNCHANGED <<ctVars, cdVars, ldVars, itVars>>

\* lines 30-43: the index page arrives and is loaded, the links are
\* discovered
IndexLoads ==
    /\ pc = "awaitIndex"
    /\ \E n \in 0..MaxIndexNodes : \E document \in DocumentsOfSize(n) :
          mosqueURLs' = DiscoverLinks(document)
    /\ index' = "loaded"
    /\ inflight' = {}
    /\ cursor' = 1
    /\ pc' = "loop"
    /\ UNCHANGED <<mosque, mosques, requests, errorLog>>
    /\ UNCHANGED <<ctVars, cdVars, ldVars, itVars>>

\* a faulty variant of line 55: the request is not awaited, the stub is pushed and
\* the loop goes on while the request is outstanding
BeginIteration_notAwaited ==
    /\ pc = "loop"
    /\ cursor <= Len(mosqueURLs)
    /\ requests' = Append(requests, mosqueURLs[cursor])
    /\ inflight' = inflight \cup {Len(requests')}
    /\ mosques' = Append(mosques, Stub(mosqueURLs[cursor]))
    /\ cursor' = cursor + 1
    /\ UNCHANGED <<pc, index, mosque, mosqueURLs, errorLog>>
    /\ UNCHANGED <<ctVars, cdVars, ldVars, itVars>>

\* lines 46-55, up to the await: the next URL of the loop, its stub, and the
\* request for its page
BeginIteration ==
    /\ pc = "loop"
    /\ cursor <= Len(mosqueURLs)
    /\ mosque' = Stub(mosqueURLs[cursor])
    /\ requests' = Append(requests, mosqueURLs[cursor])
    /\ inflight' = {Len(requests')}
    /\ pc' = "awaitDetail"
    /\ UNCHANGED <<index, mosqueURLs, cursor, mosques, errorLog>>
    /\ UNCHANGED <<ctVars, cdVars, ldVars, itVars>>

\* lines 55-101: the request settles, the rest of the iteration runs and
\* its object is pushed; an error that left the iteration would reach the
\* catch clause of lines 103-105
FinishIteration ==
    /\ pc = "awaitDetail"
    /\ \E response \in ResponsesOf(SamplePages) :
          LET after == AfterFetch(mosque, response, Noon)
          IN  IF after.threw
              THEN /\ errorLog' = Append(errorLog \o after.logged,
                                         IndexError("from the iteration"))
                   /\ pc' = "returned"
                   /\ UNCHANGED <<mosques, cursor>>
              ELSE /\ errorLog' = errorLog \o after.logged
                   /\ mosques' = Append(mosques, after.mosque)
                   /\ cursor' = cursor + 1
                   /\ pc' = "loop"
    /\ inflight' = {}
    /\ mosque' = NoMosque
    /\ UNCHANGED <<index, mosqueURLs, requests>>
    /\ UNCHANGED <<ctVars, cdVars, ldVars, itVars>>

\* the loop is over: line 107 returns mosques
ReturnMosques ==
    /\ pc = "loop"
    /\ cursor > Len(mosqueURLs)
    /\ pc' = "returned"
    /\ UNCHANGED <<index, mosqueURLs, cursor, mosque, mosques, inflight, requests,
                   errorLog>>
    /\ UNCHANGED <<ctVars, cdVars, ldVars, itVars>>

Next ==
    \/ RequestIndex
    \/ IndexFails
    \/ IndexLoads
    \/ BeginIteration
    \/ FinishIteration
    \/ ReturnMosques

Spec == Init /\ [][Next]_vars

(***************************************************************************)
(* Properties of cleanText, under SpecCleanText.                           *)
(***************************************************************************)
\* what the claim says of position i of a text without newlines and tabs:
\* a character is kept if it is no whitespace, or if it is a whitespace
\* character that stands alone between two characters that are none
KeptAt(text, i) ==
    \/ ~IsSpace(text[i])
    \/ /\ 1 < i /\ i < Len(text)
       /\ ~IsSpace(text[i - 1]) /\ ~IsSpace(text[i + 1])

RECURSIVE KeptFrom(_, _)
KeptFrom(text, i) ==
    IF i > Len(text) THEN <<>>
    ELSE (IF KeptAt(text, i) THEN <<text[i]>> ELSE <<>>) \o KeptFrom(text, i + 1)

Normalized(text) ==
    KeptFrom(SelectSeq(text, LAMBDA c : c \notin {"\n", "\t"}), 1)

IsClockTime(text) ==
    /\ Len(text) = 11
    /\ IsDigit(text[1]) /\ IsDigit(text[2]) /\ text[3] = ":"
    /\ IsDigit(text[4]) /\ IsDigit(text[5])
    /\ text[6] = " " /\ text[7] = "(" /\ text[11] = ")"
    /\ SubSeq(text, 8, 10) \in DOMAIN timeZoneOffsets
    /\ Number2(SubSeq(text, 1, 2)) <= 23
    /\ Number2(SubSeq(text, 4, 5)) <= 59

ClockHour(text) == Number2(SubSeq(text, 1, 2))
ClockMinute(text) == Number2(SubSeq(text, 4, 5))
ClockOffset(text) == timeZoneOffsets[SubSeq(text, 8, 10)]

\* C4 as claimed: for 'HH:MM (TZ)' the returned timestamp has UTC hour
\* HH - offset(TZ), minute MM, zero seconds and milliseconds, and the UTC
\* calendar date of the clock reading.
C4_AsClaimed ==
    (cdResult.done /\ IsClockTime(cdTimeString)) =>
        /\ ~cdResult.value.threw
        /\ cdResult.value.value.valid
        /\ getUTCHours(cdResult.value.value)
             = ClockHour(cdTimeString) - ClockOffset(cdTimeString)
        /\ getUTCMinutes(cdResult.value.value) = ClockMinute(cdTimeString)
        /\ getUTCSeconds(cdResult.value.value) = 0
        /\ getUTCMilliseconds(cdResult.value.value) = 0
        /\ Day(cdResult.value.value.time) = Day(cdNow)

\* C4 as amended: for 'HH:MM (TZ)' the returned timestamp has UTC hour
\* (HH - offset(TZ)) mod 24, minute MM, zero seconds and milliseconds; its
\* UTC calendar date is that of the clock reading when HH - offset(TZ) < 24
\* and the day after when HH - offset(TZ) >= 24.
C4_HourCarriesIntoDate ==
    (cdResult.done /\ IsClockTime(cdTimeString)) =>
        LET utcHour == ClockHour(cdTimeString) - ClockOffset(cdTimeString)
        IN  /\ ~cdResult.value.threw
            /\ cdResult.value.value.valid
            /\ getUTCHours(cdResult.value.value) = utcHour % 24
            /\ getUTCMinutes(cdResult.value.value) = ClockMinute(cdTimeString)
            /\ getUTCSeconds(cdResult.value.value) = 0
            /\ getUTCMilliseconds(cdResult.value.value) = 0
            /\ Day(cdResult.value.value.time)
                 = Day(cdNow) + (IF utcHour >= 24 THEN 1 ELSE 0)

\* '20:30 (EST)' converted: 01:30 UTC of the day after the clock reading
C4_Witness ==
    /\ cdResult.done
    /\ cdTimeString = <<"2", "0", ":", "3", "0", " ", "(", "E", "S", "T", ")">>
    /\ ~cdResult.value.threw
    /\ getUTCHours(cdResult.value.value) = 1
    /\ Day(cdResult.value.value.time) = Day(cdNow) + 1

\* C5 as claimed: convertToDate returns a timestamp only for an argument
\* that matches the pattern with an abbreviation of the table; an argument
\* that does not match throws "Invalid time format"; an argument whose
\* abbreviation is any other word throws "Unknown time zone abbreviation"
\* and produces no timestamp.
C5_AsClaimed ==
    cdResult.done =>
        LET match == TimeRegexMatch(cdTimeString)
        IN  /\ ~match.matched =>
                 /\ cdResult.value.threw
                 /\ cdResult.value.error = "Invalid time format"
            /\ (match.matched /\ match.timeZoneAbbr \notin DOMAIN timeZoneOffsets) =>
                 /\ cdResult.value.threw
                 /\ cdResult.value.error = "Unknown time zone abbreviation"
            /\ ~cdResult.value.threw =>
                 /\ match.matched
                 /\ match.timeZoneAbbr \in DOMAIN timeZoneOffsets

(***************************************************************************)
(* Properties of link discovery, under SpecLinks.                          *)
(***************************************************************************)
\* the anchors that lie below at least one .titleBS element
LinkedAnchors(document) ==
    {j \in 1..Len(document) :
        /\ document[j].kind = "a"
        /\ \E i \in AncestorsOrSelf(document, j) : document[i].kind = "titleBS"}

\* the pairs of a .titleBS element and an anchor below it
ContainerAnchorPairs(document) ==
    {pair \in (1..Len(document)) \X (1..Len(document)) :
        /\ document[pair[1]].kind = "titleBS"
        /\ document[pair[2]].kind = "a"
        /\ pair[1] \in AncestorsOrSelf(document, pair[2])}

\* the position of a pair when the pairs are ordered by container, then by
\* anchor, both in document order
PairRank(document, pair) ==
    Cardinality({other \in ContainerAnchorPairs(document) :
                    \/ other[1] < pair[1]
                    \/ other[1] = pair[1] /\ other[2] <= pair[2]})

\* the position of an anchor among the linked anchors in document order
AnchorRank(document, j) == Cardinality({k \in LinkedAnchors(document) : k <= j})

\* no .titleBS element lies inside another
NoNestedContainers(document) ==
    \A i \in 1..Len(document) :
        document[i].kind = "titleBS" =>
            \A k \in AncestorsOrSelf(document, i) \ {i} : document[k].kind # "titleBS"

\* baseURL + href for the hrefs of the model
UrlOfHref(href) ==
    IF href = Href("/d/a") THEN "https://www.salatomatic.com/d/a"
    ELSE IF href = Href("/d/b") THEN "https://www.salatomatic.com/d/b"
    ELSE "https://www.salatomatic.comundefined"

\* C8 as claimed: the discovered links are baseURL + href of every anchor
\* below a .titleBS element, once per anchor, in document order.
C8_AsClaimed ==
    ldResult.done =>
        /\ Len(ldResult.value) = Cardinality(LinkedAnchors(ldDocument))
        /\ \A j \in LinkedAnchors(ldDocument) :
              ldResult.value[AnchorRank(ldDocument, j)] = UrlOfHref(ldDocument[j].href)

\* C8 as amended: the discovered links are baseURL + href once for every pair
\* of a .titleBS element and an anchor below it, the containers in document
\* order and the anchors of a container in document order, without
\* deduplication, so an anchor below k nested containers appears k times; an
\* anchor without href gives baseURL + "undefined"; when no container lies
\* inside another this is one link per anchor in document order (N links for
\* N containers of one anchor each); no matching element gives no link.
C8_OneLinkPerContainerAndAnchor ==
    ldResult.done =>
        /\ Len(ldResult.value) = Cardinality(ContainerAnchorPairs(ldDocument))
        /\ \A pair \in ContainerAnchorPairs(ldDocument) :
              ldResult.value[PairRank(ldDocument, pair)]
                = UrlOfHref(ldDocument[pair[2]].href)
        /\ NoNestedContainers(ldDocument) =>
              /\ Len(ldResult.value) = Cardinality(LinkedAnchors(ldDocument))
              /\ \A j \in LinkedAnchors(ldDocument) :
                    ldResult.value[AnchorRank(ldDocument, j)]
                      = UrlOfHref(ldDocument[j].href)
        /\ LinkedAnchors(ldDocument) = {} => ldResult.value = <<>>

\* a container inside a container and, below both, two anchors with the
\* same href: four links
C8_Witness ==
    /\ ldResult.done
    /\ ~NoNestedContainers(ldDocument)
    /\ Cardinality(LinkedAnchors(ldDocument)) = 2
    /\ ldResult.value = <<"https://www.salatomatic.com/d/a",
                          "https://www.salatomatic.com/d/a",
                          "https://www.salatomatic.com/d/a",
                          "https://www.salatomatic.com/d/a">>

(***************************************************************************)
(* Properties of one iteration, under SpecIteration.                       *)
(***************************************************************************)
\* what cleanText makes of the texts of the sample pages
CleanedSample(text) ==
    IF text = TextA THEN <<"A", " ", "s", "t">>
    ELSE IF text = TextB THEN <<"B", "b">>
    ELSE <<>>

CleanedSamples(texts) == [i \in 1..Len(texts) |-> CleanedSample(texts[i])]

\* the timestamps of the sample times: 05:30 (EST) is 10:30 UTC of the day
\* of the clock reading, 20:15 (CST) is 02:15 UTC of the day after
DateOfSample(text, now) ==
    IF text = TimeEST
    THEN ValidDate(Day(now) * msPerDay + 10 * msPerHour + 30 * msPerMinute)
    ELSE ValidDate((Day(now) + 1) * msPerDay + 2 * msPerHour + 15 * msPerMinute)

\* the slots whose .microLink element is missing or holds no time
UnparsedSlots(page) ==
    {n \in 1..Len(PrayerSlots) : n > Len(page.microLink) \/ page.microLink[n] = TimeBad}

\* the slots before the first such slot
SlotsBeforeFailure(page) ==
    {n \in 1..Len(PrayerSlots) : \A k \in UnparsedSlots(page) : n < k}

ItLoaded == itResult.done /\ itResponse.status = "loaded"
ItMosque == itResult.value.mosque
ItFailed == itResult.value.logged # <<>>

\* the slots of the set are populated with the times of their elements, the
\* other slots are absent
SlotsAre(timings, page, populated, now) ==
    \A n \in 1..Len(PrayerSlots) :
        IF n \in populated
        THEN /\ Has(timings, PrayerSlots[n])
             /\ timings[PrayerSlots[n]] = DateOfSample(page.microLink[n], now)
        ELSE ~Has(timings, PrayerSlots[n])

\* url is set, the lists are empty, every other field is absent
IsUrlOnlyStub(m, url) ==
    /\ DOMAIN m = {"url", "quickFacts", "governance", "prayerTimings"}
    /\ m.url = url
    /\ m.quickFacts = <<>> /\ m.governance = <<>>
    /\ DOMAIN m.prayerTimings = {}

\* C2 as claimed: a record whose iteration fails at any point (request,
\* load, or a field extraction such as a time that does not parse) is the
\* url-only stub.
C2_AsClaimed ==
    (itResult.done /\ ItFailed) => IsUrlOnlyStub(ItMosque, itUrl)

\* C2 as amended: a record whose request or load fails is the url-only stub;
\* a record whose extraction fails at a time that does not parse (the only
\* extraction that can fail) keeps what was assigned before the failure:
\* url, address, description, quickFacts, governance and the prayer slots
\* before the failing one; the failing slot and the later slots are absent.
C2_FailedRecordKeepsEarlierFields ==
    (itResult.done /\ ItFailed) =>
        /\ ~itResult.value.threw
        /\ itResponse.status # "loaded" => IsUrlOnlyStub(ItMosque, itUrl)
        /\ itResponse.status = "loaded" =>
              LET page == itResponse.page
              IN  /\ UnparsedSlots(page) # {}
                  /\ ItMosque.url = itUrl
                  /\ Has(ItMosque, "address")
                  /\ ItMosque.address = CleanedSample(EqText(page.bodyLink, 0))
                  /\ Has(ItMosque, "description")
                  /\ ItMosque.description = CleanedSample(EqText(page.bodyLink, 1))
                  /\ ItMosque.quickFacts = CleanedSamples(page.tbodyDivs[QuickFactsTbody])
                  /\ ItMosque.governance = CleanedSamples(page.tbodyDivs[GovernanceTbody])
                  /\ SlotsAre(ItMosque.prayerTimings, page, SlotsBeforeFailure(page), itNow)

\* a page whose third time does not parse: the record has its address, its
\* tags and its first two times
C2_Witness ==
    /\ ItLoaded /\ ItFailed
    /\ itResponse.page.microLink = <<TimeEST, TimeCST, TimeBad, TimeEST, TimeEST, TimeEST>>
    /\ ItMosque.address = <<"A", " ", "s", "t">>
    /\ ItMosque.quickFacts = <<<<"A", " ", "s", "t">>>>
    /\ DOMAIN ItMosque.prayerTimings = {"fajr", "snrs"}

\* a page with k < 6 .microLink elements that all hold times
IsShortPage(page) ==
    /\ Len(page.microLink) < Len(PrayerSlots)
    /\ \A n \in 1..Len(page.microLink) : page.microLink[n] # TimeBad

\* C6 as claimed: for a page with k < 6 .microLink elements that all parse,
\* slots 1..k are populated with the times of the elements, the other slots
\* are absent, and no exception is raised for the record.
C6_AsClaimed ==
    (ItLoaded /\ IsShortPage(itResponse.page)) =>
        /\ SlotsAre(ItMosque.prayerTimings, itResponse.page,
                    1..Len(itResponse.page.microLink), itNow)
        /\ ~ItFailed

\* C6 as amended: for a page with k < 6 .microLink elements that all parse,
\* slots 1..k are populated with the times of the elements and the other
\* slots are absent; the conversion of the missing element k + 1 throws
\* "Invalid time format", which the iteration's catch clause logs: the error
\* does not leave the iteration and the record is kept.
C6_ShortPageFillsFirstSlots ==
    (ItLoaded /\ IsShortPage(itResponse.page)) =>
        /\ SlotsAre(ItMosque.prayerTimings, itResponse.page,
                    1..Len(itResponse.page.microLink), itNow)
        /\ itResult.value.logged = <<DetailError(itUrl, "Invalid time format")>>
        /\ ~itResult.value.threw

\* a page with four times
C6_Witness ==
    /\ ItLoaded
    /\ itResponse.page.microLink = <<TimeEST, TimeCST, TimeCST, TimeEST>>
    /\ DOMAIN ItMosque.prayerTimings = {"fajr", "snrs", "dhur", "asr"}
    /\ ItFailed

\* C7 as claimed: with no .bodyLink element address is absent, with fewer
\* than two description is absent (not even the empty string), and the
\* missing elements raise no error for the record.
C7_AsClaimed ==
    ItLoaded =>
        /\ Len(itResponse.page.bodyLink) = 0 => ~Has(ItMosque, "address")
        /\ Len(itResponse.page.bodyLink) < 2 => ~Has(ItMosque, "description")
        /\ UnparsedSlots(itResponse.page) = {} => ~ItFailed

\* C7 as amended: with no .bodyLink element address is the empty string,
\* with fewer than two description is the empty string, and the missing
\* elements raise no error for the record (a record fails only at a time
\* that does not parse).
C7_MissingBodyTextIsEmptyString ==
    ItLoaded =>
        /\ Len(itResponse.page.bodyLink) = 0 =>
              Has(ItMosque, "address") /\ ItMosque.address = <<>>
        /\ Len(itResponse.page.bodyLink) < 2 =>
              Has(ItMosque, "description") /\ ItMosque.description = <<>>
        /\ UnparsedSlots(itResponse.page) = {} => ~ItFailed
        /\ ~itResult.value.threw

\* a page with one .bodyLink element and six times
C7_Witness ==
    /\ ItLoaded
    /\ itResponse.page.bodyLink = <<TextA>>
    /\ UnparsedSlots(itResponse.page) = {}
    /\ ItMosque.address = <<"A", " ", "s", "t">>
    /\ ItMosque.description = <<>>
    /\ ~ItFailed

(***************************************************************************)
(* Properties of scrape, under Spec.                                       *)
(***************************************************************************)
UrlsOf(records) == [i \in 1..Len(records) |-> records[i].url]

\* C1: once the index page is loaded, the records are the records of the
\* discovered links visited so far, one each and in discovery order,
\* whatever happened to each URL; when scrape returns there is one record
\* per discovered link.
C1_OneRecordPerLinkInOrder ==
    index = "loaded" =>
        /\ pc # "rejected"
        /\ Len(mosques) <= Len(mosqueURLs)
        /\ UrlsOf(mosques) = SubSeq(mosqueURLs, 1, Len(mosques))
        /\ pc = "returned" => UrlsOf(mosques) = mosqueURLs

\* two links; the first iteration failed at the request, the second
\* extracted a record
C1_Witness ==
    /\ pc = "returned"
    /\ Len(mosqueURLs) = 2
    /\ Len(mosques) = 2
    /\ IsUrlOnlyStub(mosques[1], mosqueURLs[1])
    /\ Len(errorLog) = 1
    /\ Has(mosques[2], "address")

\* C3: if the index request or its load fails, scrape returns (it does not
\* reject) an empty list, and no request but the index request is issued.
C3_IndexFailureReturnsNothing ==
    /\ pc # "rejected"
    /\ index # "loaded" => Len(requests) <= 1 /\ mosques = <<>>
    /\ (pc = "returned" /\ index # "loaded") =>
          /\ mosques = <<>>
          /\ requests = <<DOMAIN_ \o SUB>>
          /\ inflight = {}
          /\ Len(errorLog) = 1
          /\ errorLog[1].message = "Error fetching the webpage"

\* the index request failed and scrape returned
C3_Witness ==
    /\ pc = "returned"
    /\ index # "loaded"
    /\ errorLog = <<IndexError("request failed")>>

\* C10: at most one request is outstanding; no detail request is issued
\* before the index page is loaded; the requests follow the discovery order;
\* the request for link i + 1 is issued only when the requests for links
\* 1..i have settled and their records have been appended.
C10_StrictlySequential ==
    /\ Cardinality(inflight) <= 1
    /\ Len(requests) >= 2 => index = "loaded"
    /\ \A k \in 2..Len(requests) : requests[k] = mosqueURLs[k - 1]
    /\ pc = "awaitDetail" =>
          /\ inflight = {Len(requests)}
          /\ Len(requests) >= 2
          /\ Len(mosques) = Len(requests) - 2
    /\ pc \in {"loop", "returned"} => inflight = {}
    /\ (pc \in {"loop", "returned"} /\ index = "loaded") =>
          Len(mosques) = Len(requests) - 1

\* the request for the second link is outstanding, the first record is
\* appended
C10_Witness ==
    /\ pc = "awaitDetail"
    /\ Len(requests) = 3
    /\ inflight = {3}
    /\ Len(mosques) = 1

====
